---- MODULE Spec2Model ----
(***************************************************************************)
(* Model of model/run.py: the deployment config builder of the safe        *)
(* deployment pipeline.  Three specifications share the module:            *)
(*   Spec       - a run of main(): image resolution, the two CodePipeline  *)
(*                lookups, the hyperparameters load, the output directory  *)
(*                and the two parameter files, entered either through the  *)
(*                command line block or by a direct call of main();        *)
(*   SpecConfig - get_dev_config / get_prd_config applied to every         *)
(*                combination of arguments drawn from small sets;          *)
(*   SpecLookup - get_pipeline_execution_id applied to every pipeline      *)
(*                state within the bounds.                                 *)
(* Python dicts are functions on strings, so that `k in d` is              *)
(* k \in DOMAIN d and a missing key is a KeyError.                         *)
(***************************************************************************)
EXTENDS Integers, Sequences, FiniteSets, TLC

VARIABLES
    \* ---- a run of main() -------------------------------------------------
    pc,               \* position of the run
    entry,            \* "none" | "cli" (the __main__ block) | "call" (main() called)
    error,            \* the uncaught exception that ended the run, or None
    codebuild_id,     \* argument of main
    ecr_dir,          \* argument of main (None when --ecr-dir is not given)
    region,           \* boto3.Session().region_name
    manifest,         \* the file <ecr_dir>/imageDetail.json
    hyperFile,        \* the file <data_dir>/hyperparameters.json as line 124 finds it
    image_uri,        \* local of main
    retrieveCalled,   \* sagemaker.image_uris.retrieve was called in this run
    response,         \* local of get_pipeline_execution_id, NoResponse outside the call
    job_id,           \* local of main
    revisions,        \* local of main
    git_commit_id,    \* local of main
    data_verison_id,  \* local of main
    hyperparameters,  \* local of main
    dirCreated,       \* os.mkdir(output_dir) was performed in this run
    devFile,          \* the file <output_dir>/deploy-model-dev.json
    prdFile,          \* the file <output_dir>/deploy-model-prd.json
    devWrites,        \* number of json.dump calls on deploy-model-dev.json
    prdWrites,        \* number of json.dump calls on deploy-model-prd.json
    trace,            \* the steps of main performed so far, in order
    \* ---- the config builders on their own --------------------------------
    cfg_pc,           \* "off" | "args" | "dev" | "prd"
    cfg_args,         \* the six arguments
    cfg_dev,          \* result of get_dev_config
    cfg_prd,          \* result of get_prd_config
    \* ---- get_pipeline_execution_id on its own ----------------------------
    lk_pc,            \* "off" | "call" | "returned"
    lk_response,      \* the get_pipeline_state response
    lk_codebuild_id,  \* the build id looked for
    lk_result         \* the value returned, or RaisedKeyError

runVars == <<pc, entry, error, codebuild_id, ecr_dir, region, manifest, hyperFile,
             image_uri, retrieveCalled, response, job_id, revisions, git_commit_id,
             data_verison_id, hyperparameters, dirCreated, devFile, prdFile,
             devWrites, prdWrites, trace>>

cfgVars == <<cfg_pc, cfg_args, cfg_dev, cfg_prd>>

lkVars == <<lk_pc, lk_response, lk_codebuild_id, lk_result>>

vars == <<runVars, cfgVars, lkVars>>

(***************************************************************************)
(* Python values                                                           *)
(***************************************************************************)
\* Python's None; no input string equals it.
None == "<None>"

\* A local that is not bound yet.
Absent == "<absent>"

\* A file that does not exist.
NoFile == [exists |-> FALSE]

\* No service response received yet.
NoResponse == [ResponseMetadata |-> "none"]

\* The empty dict.
EmptyDict == <<>>

\* bool(x) of a str-or-None value, as `if ecr_dir:` takes it.
Truthy(x) == x # None /\ x # ""

\* dict(a, **b): the keys of both, b's value where both have the key.
DictMerge(a, b) ==
    [k \in DOMAIN a \cup DOMAIN b |-> IF k \in DOMAIN b THEN b[k] ELSE a[k]]

\* Decimal digits of a natural number, as str(int) prints them.
RECURSIVE IntStr(_)
IntStr(n) ==
    LET d == <<"0", "1", "2", "3", "4", "5", "6", "7", "8", "9">>
    IN  IF n < 10 THEN d[n + 1] ELSE IntStr(n \div 10) \o d[(n % 10) + 1]

\* str(v) of a parsed JSON scalar, tagged with its Python type: a str is
\* [t |-> "str", s |-> ...], an int [t |-> "int", v |-> ...], a bool
\* [t |-> "bool", v |-> 0 or 1] (bool is a subclass of int), None [t |-> "null"].
PyStr(v) ==
    CASE v.t = "str"  -> v.s
      [] v.t = "int"  -> IF v.v < 0 THEN "-" \o IntStr(-v.v) ELSE IntStr(v.v)
      [] v.t = "bool" -> IF v.v = 1 THEN "True" ELSE "False"
      [] v.t = "null" -> "None"

(***************************************************************************)
(* get_dev_config, get_prd_config                                          *)
(***************************************************************************)
\* Mutant of get_dev_config: the role and the KMS key are stored under each
\* other's key.
get_dev_config_RoleKmsSwapped(model_name, jobId, role, imageUri, kms_key_id) ==
    [Parameters |->
        [ImageRepoUri  |-> imageUri,
         ModelName     |-> model_name,
         TrainJobId    |-> jobId,
         DeployRoleArn |-> kms_key_id,
         ModelVariant  |-> "dev",
         KmsKeyId      |-> role],
     Tags |-> ("mlops:model-name" :> model_name @@ "mlops:stage" :> "dev")]

get_dev_config(model_name, jobId, role, imageUri, kms_key_id) ==
    [Parameters |->
        [ImageRepoUri  |-> imageUri,
         ModelName     |-> model_name,
         TrainJobId    |-> jobId,
         DeployRoleArn |-> role,
         ModelVariant  |-> "dev",
         KmsKeyId      |-> kms_key_id],
     Tags |-> ("mlops:model-name" :> model_name @@ "mlops:stage" :> "dev")]

\* Mutant of get_prd_config: the merges are written the other way round, so
\* the dev values win over the overrides.
get_prd_config_DevWins(model_name, jobId, role, imageUri, kms_key_id, notification_arn) ==
    LET dev_config == get_dev_config(model_name, jobId, role, imageUri, kms_key_id)
        prod_params ==
            [ModelVariant            |-> "prd",
             ScheduleMetricName      |-> "feature_baseline_drift_total_amount",
             ScheduleMetricThreshold |-> PyStr([t |-> "str", s |-> "0.20"]),
             NotificationArn         |-> notification_arn]
        prod_tags == ("mlops:stage" :> "prd")
    IN  [Parameters |-> DictMerge(prod_params, dev_config["Parameters"]),
         Tags       |-> DictMerge(prod_tags, dev_config["Tags"])]

get_prd_config(model_name, jobId, role, imageUri, kms_key_id, notification_arn) ==
    LET dev_config == get_dev_config(model_name, jobId, role, imageUri, kms_key_id)
        prod_params ==
            [ModelVariant            |-> "prd",
             ScheduleMetricName      |-> "feature_baseline_drift_total_amount",
             ScheduleMetricThreshold |-> PyStr([t |-> "str", s |-> "0.20"]),
             NotificationArn         |-> notification_arn]
        prod_tags == ("mlops:stage" :> "prd")
    IN  [Parameters |-> DictMerge(dev_config["Parameters"], prod_params),
         Tags       |-> DictMerge(dev_config["Tags"], prod_tags)]

(***************************************************************************)
(* SpecConfig: the builders applied to every argument combination          *)
(***************************************************************************)
\* Argument values: two strings, so that an argument stored under another
\* argument's key shows; the job id may also be None (no matching action).
ArgValues == {"a", "b"}

CfgArgs ==
    [model_name : ArgValues, job_id : ArgValues \cup {None}, role : ArgValues,
     image_uri : ArgValues, kms_key_id : ArgValues, notification_arn : ArgValues]

NoArgs == [model_name |-> Absent]

\* A config that is not built yet.
NoConfig == [Parameters |-> EmptyDict, Tags |-> EmptyDict]

InitRunIdle ==
    /\ pc = "off" /\ entry = "none" /\ error = None
    /\ codebuild_id = Absent /\ ecr_dir = None /\ region = Absent
    /\ manifest = NoFile /\ hyperFile = NoFile
    /\ image_uri = Absent /\ retrieveCalled = FALSE
    /\ response = NoResponse /\ job_id = Absent /\ revisions = EmptyDict
    /\ git_commit_id = Absent /\ data_verison_id = Absent
    /\ hyperparameters = EmptyDict /\ dirCreated = FALSE
    /\ devFile = NoFile /\ prdFile = NoFile
    /\ devWrites = 0 /\ prdWrites = 0 /\ trace = <<>>

InitCfgIdle ==
    /\ cfg_pc = "off" /\ cfg_args = NoArgs /\ cfg_dev = NoConfig /\ cfg_prd = NoConfig

InitLookupIdle ==
    /\ lk_pc = "off" /\ lk_response = NoResponse
    /\ lk_codebuild_id = Absent /\ lk_result = Absent

InitConfig ==
    /\ InitRunIdle
    /\ InitLookupIdle
    /\ cfg_pc = "args" /\ cfg_args \in CfgArgs /\ cfg_dev = NoConfig /\ cfg_prd = NoConfig

BuildDev ==
    /\ cfg_pc = "args"
    /\ cfg_dev' = get_dev_config(cfg_args.model_name, cfg_args.job_id, cfg_args.role,
                                 cfg_args.image_uri, cfg_args.kms_key_id)
    /\ cfg_pc' = "dev"
    /\ UNCHANGED <<cfg_args, cfg_prd, runVars, lkVars>>

BuildPrd ==
    /\ cfg_pc = "dev"
    /\ cfg_prd' = get_prd_config(cfg_args.model_name, cfg_args.job_id, cfg_args.role,
                                 cfg_args.image_uri, cfg_args.kms_key_id,
                                 cfg_args.notification_arn)
    /\ cfg_pc' = "prd"
    /\ UNCHANGED <<cfg_args, cfg_dev, runVars, lkVars>>

NextConfig == BuildDev \/ BuildPrd

SpecConfig == InitConfig /\ [][NextConfig]_vars

(***************************************************************************)
(* Inputs of a run of main()                                               *)
(***************************************************************************)
MaxStages == 2
MaxActions == 1
MaxRevs == 2

BuildIds == {"b1", "b2"}
ExecIds == {"e1", "e2"}
RevisionIds == {"r1", "r2"}
RevisionNames == {"ModelSourceOutput", "DataSourceOutput", "OtherOutput"}

\* The fixed arguments of the run.
ModelNameArg == "model"
DeployRoleArg == "role"
KmsKeyIdArg == "kms"
NotificationArnArg == "arn:sns:x"

\* ecr_dir: flag not given, given empty, given with a directory.
EcrDirs == {None, "", "ecr"}

\* imageDetail.json: no file, a file without the ImageURI field, a file with it.
Manifests ==
    {NoFile,
     [exists |-> TRUE, json |-> [Other |-> "x"]],
     [exists |-> TRUE, json |-> [ImageURI |-> "custom-image"]]}

\* hyperparameters.json: no file, a file that is not JSON, a JSON number, and
\* JSON objects of at most one entry.
HyperValues == {[t |-> "int", v |-> 6], [t |-> "bool", v |-> 1], [t |-> "str", s |-> "auto"]}

HyperFiles ==
    {NoFile,
     [exists |-> TRUE, kind |-> "malformed"],
     [exists |-> TRUE, kind |-> "json", value |-> [t |-> "int", v |-> 6]],
     [exists |-> TRUE, kind |-> "json", value |-> [t |-> "object", items |-> EmptyDict]]}
    \cup {[exists |-> TRUE, kind |-> "json",
           value |-> [t |-> "object", items |-> [max_depth |-> x]]] : x \in HyperValues}

SeqsUpTo(S, n) == UNION {[1..k -> S] : k \in 0..n}

\* One entry of actionStates: never executed, executed without an external
\* execution id, executed with one.
ActionStates ==
    {[actionName |-> "act"],
     [actionName |-> "act", latestExecution |-> [status |-> "Succeeded"]]}
    \cup {[actionName |-> "act",
           latestExecution |-> [status |-> "Succeeded", externalExecutionId |-> b]]
          : b \in BuildIds}

\* One entry of stageStates.  CodePipeline reports a stage's latestExecution
\* once the stage has run, so a stage without it holds only actions that have
\* not run either.
StageStates ==
    {[stageName |-> "stg", actionStates |-> as]
        : as \in SeqsUpTo({[actionName |-> "act"]}, MaxActions)}
    \cup {[stageName |-> "stg", actionStates |-> as,
           latestExecution |-> [pipelineExecutionId |-> e, status |-> "InProgress"]]
          : as \in SeqsUpTo(ActionStates, MaxActions), e \in ExecIds}

\* Responses of get_pipeline_state.
StateResponses == {[stageStates |-> ss] : ss \in SeqsUpTo(StageStates, MaxStages)}

\* Responses of get_pipeline_execution.
ArtifactRevisions == [name : RevisionNames, revisionId : RevisionIds]

ExecutionResponses ==
    {[pipelineExecution |-> [artifactRevisions |-> rs]]
        : rs \in SeqsUpTo(ArtifactRevisions, MaxRevs)}

\* sagemaker.image_uris.retrieve: the registry's image for the triple.
Retrieve(rgn, framework, version) == "img:" \o rgn \o ":" \o framework \o ":" \o version

\* Mutant of get_training_image: a pinned version instead of "latest".
get_training_image_Pinned(rgn) == Retrieve(rgn, "xgboost", "1.0-1")

get_training_image(rgn) == Retrieve(rgn, "xgboost", "latest")

(***************************************************************************)
(* get_pipeline_execution_id: the two nested loops                         *)
(***************************************************************************)
\* The loop fell through without returning.
NoReturn == "<no return>"

\* stage["latestExecution"] of a stage that has none.
RaisedKeyError == "<KeyError>"

RECURSIVE ScanActions(_, _, _)
ScanActions(stage, i, cid) ==
    IF i > Len(stage["actionStates"]) THEN NoReturn
    ELSE LET action == stage["actionStates"][i]
         IN  IF /\ "latestExecution" \in DOMAIN action
                /\ "externalExecutionId" \in DOMAIN action["latestExecution"]
                /\ action["latestExecution"]["externalExecutionId"] = cid
             THEN IF "latestExecution" \in DOMAIN stage
                  THEN stage["latestExecution"]["pipelineExecutionId"]
                  ELSE RaisedKeyError
             ELSE ScanActions(stage, i + 1, cid)

\* Mutant of ScanStages: the scan does not stop at the first match, so the
\* last matching stage decides.
RECURSIVE ScanStages_LastMatch(_, _, _)
ScanStages_LastMatch(stages, s, cid) ==
    IF s > Len(stages) THEN None
    ELSE LET later == ScanStages_LastMatch(stages, s + 1, cid)
             r == ScanActions(stages[s], 1, cid)
         IN  IF later # None THEN later
             ELSE IF r # NoReturn THEN r ELSE None

RECURSIVE ScanStages(_, _, _)
ScanStages(stages, s, cid) ==
    IF s > Len(stages) THEN None
    ELSE LET r == ScanActions(stages[s], 1, cid)
         IN  IF r # NoReturn THEN r ELSE ScanStages(stages, s + 1, cid)

\* Mutant of get_pipeline_execution_id: without a match, the execution of the
\* first stage that ran is returned instead of None.
RECURSIVE FirstExecution(_, _)
FirstExecution(stages, s) ==
    IF s > Len(stages) THEN None
    ELSE IF "latestExecution" \in DOMAIN stages[s]
         THEN stages[s]["latestExecution"]["pipelineExecutionId"]
         ELSE FirstExecution(stages, s + 1)

get_pipeline_execution_id_WithFallback(resp, cid) ==
    LET r == ScanStages(resp["stageStates"], 1, cid)
    IN  IF r = None THEN FirstExecution(resp["stageStates"], 1) ELSE r

get_pipeline_execution_id(resp, cid) == ScanStages(resp["stageStates"], 1, cid)

\* dict((r["name"], r["revisionId"]) for r in ...): a later entry of the same
\* name replaces an earlier one.
RECURSIVE DictOfRevisions(_, _)
DictOfRevisions(rs, n) ==
    IF n = 0 THEN EmptyDict
    ELSE DictMerge(DictOfRevisions(rs, n - 1), (rs[n].name :> rs[n].revisionId))

get_pipeline_revisions(resp) ==
    LET rs == resp["pipelineExecution"]["artifactRevisions"]
    IN  DictOfRevisions(rs, Len(rs))

\* json.dump of a config: None is written as null, a string in quotes.
JsonValue(v) == IF v = None THEN "null" ELSE "\"" \o v \o "\""

JsonDump(config) ==
    [Parameters |-> [k \in DOMAIN config["Parameters"] |-> JsonValue(config["Parameters"][k])],
     Tags       |-> [k \in DOMAIN config["Tags"] |-> JsonValue(config["Tags"][k])]]

\* The loop of lines 127-128 over a parsed JSON object.
CoerceHyperparameters(h) == [i \in DOMAIN h |-> PyStr(h[i])]

(***************************************************************************)
(* The command line                                                        *)
(***************************************************************************)
\* dest names of the flags the parser declares (lines 148-160).
CliDests ==
    {"codebuild_id", "data_dir", "output_dir", "ecr_dir", "pipeline_name",
     "model_name", "deploy_role", "sagemaker_bucket", "kms_key_id",
     "workflow_role_arn", "notification_arn"}

\* Parameters of main (lines 78-91); none has a default.
MainParams ==
    {"codebuild_id", "pipeline_name", "model_name", "deploy_role",
     "sagemaker_bucket", "data_dir", "output_dir", "ecr_dir", "kms_key_id",
     "notification_arn"}

\* main(**args) binds iff every key is a parameter and every parameter has a key.
Binds(keys, params) == keys \subseteq params /\ params \subseteq keys

(***************************************************************************)
(* Spec: a run of main()                                                   *)
(***************************************************************************)
Init ==
    /\ InitCfgIdle
    /\ InitLookupIdle
    /\ pc = "start" /\ entry = "none" /\ error = None
    /\ codebuild_id \in BuildIds
    /\ ecr_dir \in EcrDirs
    /\ region = "us-east-1"
    /\ manifest \in Manifests
    /\ hyperFile = NoFile
    /\ image_uri = Absent /\ retrieveCalled = FALSE
    /\ response = NoResponse /\ job_id = Absent /\ revisions = EmptyDict
    /\ git_commit_id = Absent /\ data_verison_id = Absent
    /\ hyperparameters = EmptyDict /\ dirCreated = FALSE
    /\ devFile = NoFile /\ prdFile = NoFile
    /\ devWrites = 0 /\ prdWrites = 0 /\ trace = <<>>

\* An uncaught exception: the process ends.
Fatal(e) == pc' = "fatal" /\ error' = e

\* Lines 146-163: parse the flags and call main(**args).
CliInvoke ==
    /\ pc = "start"
    /\ entry' = "cli"
    /\ IF Binds(CliDests, MainParams)
       THEN pc' = "image" /\ error' = error
       ELSE Fatal("TypeError")
    /\ UNCHANGED <<codebuild_id, ecr_dir, region, manifest, hyperFile, image_uri,
                   retrieveCalled, response, job_id, revisions, git_commit_id,
                   data_verison_id, hyperparameters, dirCreated, devFile, prdFile,
                   devWrites, prdWrites, trace, cfgVars, lkVars>>

\* main(...) called with one value per parameter.
CallMain ==
    /\ pc = "start"
    /\ entry' = "call"
    /\ pc' = "image"
    /\ UNCHANGED <<error, codebuild_id, ecr_dir, region, manifest, hyperFile,
                   image_uri, retrieveCalled, response, job_id, revisions,
                   git_commit_id, data_verison_id, hyperparameters, dirCreated,
                   devFile, prdFile, devWrites, prdWrites, trace, cfgVars, lkVars>>

\* Mutant of ResolveImage: a missing manifest falls back to the managed image.
ResolveImage_FallsBack ==
    /\ pc = "image"
    /\ trace' = Append(trace, "image")
    /\ IF Truthy(ecr_dir) /\ manifest.exists
       THEN /\ retrieveCalled' = retrieveCalled
            /\ IF "ImageURI" \notin DOMAIN manifest.json
               THEN Fatal("KeyError") /\ image_uri' = image_uri
               ELSE /\ image_uri' = manifest.json["ImageURI"]
                    /\ pc' = "state" /\ error' = error
       ELSE /\ retrieveCalled' = TRUE
            /\ \/ /\ image_uri' = get_training_image(region)
                  /\ pc' = "state" /\ error' = error
               \/ Fatal("RetrieveError") /\ image_uri' = image_uri
    /\ UNCHANGED <<entry, codebuild_id, ecr_dir, region, manifest, hyperFile,
                   response, job_id, revisions, git_commit_id, data_verison_id,
                   hyperparameters, dirCreated, devFile, prdFile, devWrites,
                   prdWrites, cfgVars, lkVars>>

\* Lines 97-104.
ResolveImage ==
    /\ pc = "image"
    /\ trace' = Append(trace, "image")
    /\ IF Truthy(ecr_dir)
       THEN /\ retrieveCalled' = retrieveCalled
            /\ IF ~manifest.exists
               THEN Fatal("FileNotFoundError") /\ image_uri' = image_uri
               ELSE IF "ImageURI" \notin DOMAIN manifest.json
                    THEN Fatal("KeyError") /\ image_uri' = image_uri
                    ELSE /\ image_uri' = manifest.json["ImageURI"]
                         /\ pc' = "state" /\ error' = error
       ELSE /\ retrieveCalled' = TRUE
            /\ \/ /\ image_uri' = get_training_image(region)
                  /\ pc' = "state" /\ error' = error
               \/ Fatal("RetrieveError") /\ image_uri' = image_uri
    /\ UNCHANGED <<entry, codebuild_id, ecr_dir, region, manifest, hyperFile,
                   response, job_id, revisions, git_commit_id, data_verison_id,
                   hyperparameters, dirCreated, devFile, prdFile, devWrites,
                   prdWrites, cfgVars, lkVars>>

\* Lines 55-56: the get_pipeline_state call.
GetPipelineState ==
    /\ pc = "state"
    /\ trace' = Append(trace, "execid")
    /\ \/ /\ response' \in StateResponses
          /\ pc' = "scan" /\ error' = error
       \/ Fatal("ClientError") /\ response' = response
    /\ UNCHANGED <<entry, codebuild_id, ecr_dir, region, manifest, hyperFile,
                   image_uri, retrieveCalled, job_id, revisions, git_commit_id,
                   data_verison_id, hyperparameters, dirCreated, devFile, prdFile,
                   devWrites, prdWrites, cfgVars, lkVars>>

\* Lines 57-65 and the assignment of line 107.
ReturnExecutionId ==
    /\ pc = "scan"
    /\ LET r == get_pipeline_execution_id(response, codebuild_id)
       IN  IF r = RaisedKeyError
           THEN Fatal("KeyError") /\ job_id' = job_id
           ELSE job_id' = r /\ pc' = "revisions" /\ error' = error
    /\ response' = NoResponse
    /\ UNCHANGED <<entry, codebuild_id, ecr_dir, region, manifest, hyperFile,
                   image_uri, retrieveCalled, revisions, git_commit_id,
                   data_verison_id, hyperparameters, dirCreated, devFile, prdFile,
                   devWrites, prdWrites, trace, cfgVars, lkVars>>

\* Lines 68-75 and the assignment of line 108.
GetPipelineRevisions ==
    /\ pc = "revisions"
    /\ trace' = Append(trace, "revisions")
    /\ \/ /\ \E resp \in ExecutionResponses : revisions' = get_pipeline_revisions(resp)
          /\ pc' = "extract" /\ error' = error
       \/ Fatal("ClientError") /\ revisions' = revisions
    /\ UNCHANGED <<entry, codebuild_id, ecr_dir, region, manifest, hyperFile,
                   image_uri, retrieveCalled, response, job_id, git_commit_id,
                   data_verison_id, hyperparameters, dirCreated, devFile, prdFile,
                   devWrites, prdWrites, cfgVars, lkVars>>

\* Mutant of ExtractRevisions: revisions.get(name) instead of revisions[name].
ExtractRevisions_Lenient ==
    /\ pc = "extract"
    /\ trace' = Append(trace, "extract")
    /\ git_commit_id' = IF "ModelSourceOutput" \in DOMAIN revisions
                        THEN revisions["ModelSourceOutput"] ELSE None
    /\ data_verison_id' = IF "DataSourceOutput" \in DOMAIN revisions
                          THEN revisions["DataSourceOutput"] ELSE None
    /\ pc' = "hyper"
    /\ UNCHANGED <<entry, error, codebuild_id, ecr_dir, region, manifest, hyperFile,
                   image_uri, retrieveCalled, response, job_id, revisions,
                   hyperparameters, dirCreated, devFile, prdFile, devWrites,
                   prdWrites, cfgVars, lkVars>>

\* Lines 109-110.
ExtractRevisions ==
    /\ pc = "extract"
    /\ trace' = Append(trace, "extract")
    /\ IF "ModelSourceOutput" \notin DOMAIN revisions
       THEN /\ Fatal("KeyError")
            /\ UNCHANGED <<git_commit_id, data_verison_id>>
       ELSE /\ git_commit_id' = revisions["ModelSourceOutput"]
            /\ IF "DataSourceOutput" \notin DOMAIN revisions
               THEN Fatal("KeyError") /\ data_verison_id' = data_verison_id
               ELSE /\ data_verison_id' = revisions["DataSourceOutput"]
                    /\ pc' = "hyper" /\ error' = error
    /\ UNCHANGED <<entry, codebuild_id, ecr_dir, region, manifest, hyperFile,
                   image_uri, retrieveCalled, response, job_id, revisions,
                   hyperparameters, dirCreated, devFile, prdFile, devWrites,
                   prdWrites, cfgVars, lkVars>>

\* Lines 123-128; output_data (lines 116-119) is a local nothing reads.
LoadHyperparameters ==
    /\ pc = "hyper"
    /\ trace' = Append(trace, "hyper")
    /\ hyperFile' \in HyperFiles
    /\ IF ~hyperFile'.exists
       THEN hyperparameters' = EmptyDict /\ pc' = "outdir" /\ error' = error
       ELSE IF hyperFile'.kind = "malformed"
            THEN Fatal("JSONDecodeError") /\ hyperparameters' = EmptyDict
            ELSE IF hyperFile'.value.t # "object"
                 THEN Fatal("TypeError") /\ hyperparameters' = EmptyDict
                 ELSE /\ hyperparameters' = CoerceHyperparameters(hyperFile'.value.items)
                      /\ pc' = "outdir" /\ error' = error
    /\ UNCHANGED <<entry, codebuild_id, ecr_dir, region, manifest, image_uri,
                   retrieveCalled, response, job_id, revisions, git_commit_id,
                   data_verison_id, dirCreated, devFile, prdFile, devWrites,
                   prdWrites, cfgVars, lkVars>>

\* Lines 132-133: os.mkdir is not recursive and fails without the parent.
MakeOutputDir ==
    /\ pc = "outdir"
    /\ \/ /\ pc' = "dev"
          /\ UNCHANGED <<error, dirCreated, trace>>
       \/ /\ trace' = Append(trace, "mkdir")
          /\ dirCreated' = TRUE
          /\ pc' = "dev" /\ error' = error
       \/ /\ trace' = Append(trace, "mkdir")
          /\ Fatal("OSError")
          /\ dirCreated' = dirCreated
    /\ UNCHANGED <<entry, codebuild_id, ecr_dir, region, manifest, hyperFile,
                   image_uri, retrieveCalled, response, job_id, revisions,
                   git_commit_id, data_verison_id, hyperparameters, devFile,
                   prdFile, devWrites, prdWrites, cfgVars, lkVars>>

\* Mutant of WriteDev: the loaded hyperparameters are merged into the
\* Parameters written.
WriteDev_WithHyperparameters ==
    /\ pc = "dev"
    /\ trace' = Append(trace, "dev")
    /\ \/ /\ devFile' =
                [exists |-> TRUE,
                 json |-> LET c == get_dev_config(ModelNameArg, job_id, DeployRoleArg,
                                                 image_uri, KmsKeyIdArg)
                          IN  JsonDump([Parameters |->
                                            DictMerge(c["Parameters"], hyperparameters),
                                        Tags |-> c["Tags"]])]
          /\ devWrites' = devWrites + 1
          /\ pc' = "prd" /\ error' = error
       \/ Fatal("OSError") /\ UNCHANGED <<devFile, devWrites>>
    /\ UNCHANGED <<entry, codebuild_id, ecr_dir, region, manifest, hyperFile,
                   image_uri, retrieveCalled, response, job_id, revisions,
                   git_commit_id, data_verison_id, hyperparameters, dirCreated,
                   prdFile, prdWrites, cfgVars, lkVars>>

\* Mutant of WriteDev: a failure to open the dev file is swallowed and the run
\* goes on to the prd file.
WriteDev_SwallowsError ==
    /\ pc = "dev"
    /\ trace' = Append(trace, "dev")
    /\ \/ /\ devFile' =
                [exists |-> TRUE,
                 json |-> JsonDump(get_dev_config(ModelNameArg, job_id, DeployRoleArg,
                                                  image_uri, KmsKeyIdArg))]
          /\ devWrites' = devWrites + 1
          /\ pc' = "prd" /\ error' = error
       \/ /\ pc' = "prd" /\ error' = error
          /\ UNCHANGED <<devFile, devWrites>>
    /\ UNCHANGED <<entry, codebuild_id, ecr_dir, region, manifest, hyperFile,
                   image_uri, retrieveCalled, response, job_id, revisions,
                   git_commit_id, data_verison_id, hyperparameters, dirCreated,
                   prdFile, prdWrites, cfgVars, lkVars>>

\* Lines 136-138.
WriteDev ==
    /\ pc = "dev"
    /\ trace' = Append(trace, "dev")
    /\ \/ /\ devFile' =
                [exists |-> TRUE,
                 json |-> JsonDump(get_dev_config(ModelNameArg, job_id, DeployRoleArg,
                                                  image_uri, KmsKeyIdArg))]
          /\ devWrites' = devWrites + 1
          /\ pc' = "prd" /\ error' = error
       \/ Fatal("OSError") /\ UNCHANGED <<devFile, devWrites>>
    /\ UNCHANGED <<entry, codebuild_id, ecr_dir, region, manifest, hyperFile,
                   image_uri, retrieveCalled, response, job_id, revisions,
                   git_commit_id, data_verison_id, hyperparameters, dirCreated,
                   prdFile, prdWrites, cfgVars, lkVars>>

\* Lines 139-143.
WritePrd ==
    /\ pc = "prd"
    /\ trace' = Append(trace, "prd")
    /\ \/ /\ prdFile' =
                [exists |-> TRUE,
                 json |-> JsonDump(get_prd_config(ModelNameArg, job_id, DeployRoleArg,
                                                  image_uri, KmsKeyIdArg,
                                                  NotificationArnArg))]
          /\ prdWrites' = prdWrites + 1
          /\ pc' = "done" /\ error' = error
       \/ Fatal("OSError") /\ UNCHANGED <<prdFile, prdWrites>>
    /\ UNCHANGED <<entry, codebuild_id, ecr_dir, region, manifest, hyperFile,
                   image_uri, retrieveCalled, response, job_id, revisions,
                   git_commit_id, data_verison_id, hyperparameters, dirCreated,
                   devFile, devWrites, cfgVars, lkVars>>

Next ==
    \/ CliInvoke
    \/ CallMain
    \/ ResolveImage
    \/ GetPipelineState
    \/ ReturnExecutionId
    \/ GetPipelineRevisions
    \/ ExtractRevisions
    \/ LoadHyperparameters
    \/ MakeOutputDir
    \/ WriteDev
    \/ WritePrd

Spec == Init /\ [][Next]_vars

(***************************************************************************)
(* SpecLookup: get_pipeline_execution_id applied to every pipeline state   *)
(***************************************************************************)
InitLookup ==
    /\ InitRunIdle
    /\ InitCfgIdle
    /\ lk_pc = "call"
    /\ lk_response \in StateResponses
    /\ lk_codebuild_id \in BuildIds
    /\ lk_result = Absent

\* Lines 57-65 on the response of line 56.
LookupReturn ==
    /\ lk_pc = "call"
    /\ lk_result' = get_pipeline_execution_id(lk_response, lk_codebuild_id)
    /\ lk_pc' = "returned"
    /\ UNCHANGED <<lk_response, lk_codebuild_id, runVars, cfgVars>>

NextLookup == LookupReturn

SpecLookup == InitLookup /\ [][NextLookup]_vars

(***************************************************************************)
(* Properties of the config builders (checked under SpecConfig)            *)
(***************************************************************************)
OverriddenParameters ==
    {"ModelVariant", "ScheduleMetricName", "ScheduleMetricThreshold", "NotificationArn"}

\* C1: the prd config has the two top-level fields Parameters and Tags only;
\* its Parameters are the dev Parameters built from the same first five
\* arguments with ModelVariant, ScheduleMetricName, ScheduleMetricThreshold
\* and NotificationArn overridden or added and every other key identical; its
\* Tags are the dev Tags with only mlops:stage changed to "prd".
C1_PrdIsDevWithOverrides ==
    cfg_pc = "prd" =>
        LET devP == cfg_dev["Parameters"]
            prdP == cfg_prd["Parameters"]
            devT == cfg_dev["Tags"]
            prdT == cfg_prd["Tags"]
        IN  /\ DOMAIN cfg_prd = {"Parameters", "Tags"}
            /\ DOMAIN prdP = DOMAIN devP \cup OverriddenParameters
            /\ \A k \in DOMAIN devP \ OverriddenParameters : prdP[k] = devP[k]
            /\ prdP["ModelVariant"] = "prd"
            /\ prdP["ScheduleMetricName"] = "feature_baseline_drift_total_amount"
            /\ prdP["ScheduleMetricThreshold"] = "0.20"
            /\ prdP["NotificationArn"] = cfg_args.notification_arn
            /\ DOMAIN prdT = DOMAIN devT
            /\ \A k \in DOMAIN devT \ {"mlops:stage"} : prdT[k] = devT[k]
            /\ prdT["mlops:stage"] = "prd"

\* A prd config was built for a notification ARN that differs from every
\* value the dev config holds under a key the prd config keeps.
C1_Witness ==
    /\ cfg_pc = "prd"
    /\ cfg_args.notification_arn = "b"
    /\ cfg_args.kms_key_id = "a"
    /\ cfg_prd["Parameters"]["NotificationArn"] = "b"
    /\ cfg_dev["Parameters"]["ModelVariant"] = "dev"

\* C2: the dev config's Parameters are exactly ImageRepoUri, ModelName,
\* TrainJobId, DeployRoleArn, ModelVariant="dev" and KmsKeyId, each holding
\* its own argument, and its Tags exactly mlops:model-name and
\* mlops:stage="dev".
C2_DevConfigShape ==
    cfg_pc \in {"dev", "prd"} =>
        /\ DOMAIN cfg_dev = {"Parameters", "Tags"}
        /\ DOMAIN cfg_dev["Parameters"] =
               {"ImageRepoUri", "ModelName", "TrainJobId", "DeployRoleArn",
                "ModelVariant", "KmsKeyId"}
        /\ cfg_dev["Parameters"]["ImageRepoUri"] = cfg_args.image_uri
        /\ cfg_dev["Parameters"]["ModelName"] = cfg_args.model_name
        /\ cfg_dev["Parameters"]["TrainJobId"] = cfg_args.job_id
        /\ cfg_dev["Parameters"]["DeployRoleArn"] = cfg_args.role
        /\ cfg_dev["Parameters"]["ModelVariant"] = "dev"
        /\ cfg_dev["Parameters"]["KmsKeyId"] = cfg_args.kms_key_id
        /\ DOMAIN cfg_dev["Tags"] = {"mlops:model-name", "mlops:stage"}
        /\ cfg_dev["Tags"]["mlops:model-name"] = cfg_args.model_name
        /\ cfg_dev["Tags"]["mlops:stage"] = "dev"

\* A dev config was built from arguments that differ pairwise where a swap
\* would show.
C2_Witness ==
    /\ cfg_pc = "dev"
    /\ cfg_args.role = "a" /\ cfg_args.kms_key_id = "b"
    /\ cfg_args.model_name = "a" /\ cfg_args.image_uri = "b"
    /\ cfg_args.job_id = "b"
    /\ cfg_dev["Parameters"]["DeployRoleArn"] = "a"

(***************************************************************************)
(* Properties of a run (checked under Spec)                                *)
(***************************************************************************)
Range(f) == {f[i] : i \in DOMAIN f}

Done(step) == step \in Range(trace)

LastStep == IF trace = <<>> THEN "none" ELSE trace[Len(trace)]

NoOutputFile == ~devFile.exists /\ ~prdFile.exists

\* C3: with a manifest path given and no imageDetail.json there, the run
\* never gets past image resolution, ends there with the file-not-found
\* error, never calls the managed image lookup and writes neither file.
C3_MissingManifestIsFatal ==
    (Truthy(ecr_dir) /\ ~manifest.exists) =>
        /\ pc \in {"start", "image", "fatal"}
        /\ Done("image") => (pc = "fatal" /\ error = "FileNotFoundError")
        /\ ~retrieveCalled
        /\ image_uri = Absent
        /\ NoOutputFile

C3_Witness ==
    /\ ecr_dir = "ecr" /\ ~manifest.exists
    /\ entry = "call" /\ Done("image")
    /\ pc = "fatal" /\ error = "FileNotFoundError"

\* C4 as stated: the manifest's ImageURI when a path is supplied and a file
\* exists there; in every other case, path supplied without a file included,
\* the default managed image (a failure of the read or of the lookup itself
\* apart).
C4_Original ==
    Done("image") =>
        IF Truthy(ecr_dir) /\ manifest.exists
        THEN \/ /\ "ImageURI" \in DOMAIN manifest.json
                /\ image_uri = manifest.json["ImageURI"]
             \/ error = "KeyError"
        ELSE \/ image_uri = Retrieve(region, "xgboost", "latest")
             \/ error = "RetrieveError"

\* C4 (amended): the manifest's ImageURI when a path is supplied and a file
\* with that field exists there; the default managed image for the region and
\* xgboost/latest only when no path is supplied; with a path supplied and no
\* file there, a fatal error, no image and no default lookup.
C4_ResolveImage ==
    Done("image") =>
        IF Truthy(ecr_dir)
        THEN /\ ~retrieveCalled
             /\ IF ~manifest.exists
                THEN pc = "fatal" /\ error = "FileNotFoundError" /\ image_uri = Absent
                ELSE IF "ImageURI" \in DOMAIN manifest.json
                     THEN image_uri = manifest.json["ImageURI"]
                     ELSE pc = "fatal" /\ error = "KeyError" /\ image_uri = Absent
        ELSE /\ retrieveCalled
             /\ \/ image_uri = Retrieve(region, "xgboost", "latest")
                \/ pc = "fatal" /\ error = "RetrieveError" /\ image_uri = Absent

\* Both branches seen from one input: an empty ecr_dir beside an existing
\* manifest resolves the managed image.
C4_Witness ==
    /\ pc = "state"
    /\ ecr_dir = "" /\ manifest.exists
    /\ retrieveCalled
    /\ image_uri = Retrieve(region, "xgboost", "latest")

\* The action at position a of stage s ran with the external id cid.
ActionMatches(stages, s, a, cid) ==
    LET action == stages[s]["actionStates"][a]
    IN  /\ "latestExecution" \in DOMAIN action
        /\ "externalExecutionId" \in DOMAIN action["latestExecution"]
        /\ action["latestExecution"]["externalExecutionId"] = cid

StageMatches(stages, s, cid) ==
    \E a \in 1..Len(stages[s]["actionStates"]) : ActionMatches(stages, s, a, cid)

HasMatch(stages, cid) == \E s \in 1..Len(stages) : StageMatches(stages, s, cid)

FirstMatchingStage(stages, cid) ==
    CHOOSE s \in 1..Len(stages) :
        /\ StageMatches(stages, s, cid)
        /\ \A t \in 1..(s - 1) : ~StageMatches(stages, t, cid)

\* C5: when no action's latest execution carries the build id, the lookup
\* returns without an error and the job id is None; the job id is never
\* rebound afterwards, and each file written carries it as TrainJobId.
C5_NoMatchYieldsNone ==
    /\ [][(pc = "scan" /\ ~HasMatch(response["stageStates"], codebuild_id))
            => (pc' = "revisions" /\ job_id' = None /\ error' = None)]_vars
    /\ [][job_id # Absent => job_id' = job_id]_vars
    /\ [](devFile.exists =>
            devFile.json["Parameters"]["TrainJobId"] = JsonValue(job_id))
    /\ [](prdFile.exists =>
            prdFile.json["Parameters"]["TrainJobId"] = JsonValue(job_id))

\* The lookup of a direct call of main returned None without an error.
C5_Witness ==
    /\ entry = "call"
    /\ pc = "revisions" /\ Done("execid")
    /\ job_id = None /\ error = None

\* C6: once the revisions are looked up without both ModelSourceOutput and
\* DataSourceOutput, the run has ended with a KeyError, os.mkdir was not
\* called and neither file is written.
C6_MissingRevisionIsFatal ==
    (Done("extract")
        /\ ~({"ModelSourceOutput", "DataSourceOutput"} \subseteq DOMAIN revisions)) =>
        /\ pc = "fatal" /\ error = "KeyError"
        /\ ~dirCreated /\ ~Done("mkdir")
        /\ NoOutputFile

\* The second lookup failed: the commit id is bound, the data version is not.
C6_Witness ==
    /\ Done("extract")
    /\ "ModelSourceOutput" \in DOMAIN revisions
    /\ "DataSourceOutput" \notin DOMAIN revisions
    /\ git_commit_id = revisions["ModelSourceOutput"]
    /\ pc = "fatal" /\ error = "KeyError"

\* The dev and prd documents as the other inputs and lookup results alone
\* determine them.
FilesIgnoreHyperparameters ==
    /\ devFile.exists =>
           devFile.json = JsonDump(get_dev_config(ModelNameArg, job_id, DeployRoleArg,
                                                  image_uri, KmsKeyIdArg))
    /\ prdFile.exists =>
           prdFile.json = JsonDump(get_prd_config(ModelNameArg, job_id, DeployRoleArg,
                                                  image_uri, KmsKeyIdArg,
                                                  NotificationArnArg))

HyperFileIsObject ==
    hyperFile.exists /\ hyperFile.kind = "json" /\ hyperFile.value.t = "object"

\* C7 as stated: whatever hyperparameters.json is, the run goes on as it does
\* without the file (the hyperparameters load never ends it) and the files
\* written do not depend on it.
C7_Original ==
    Done("hyper") =>
        /\ ~(pc = "fatal" /\ LastStep = "hyper")
        /\ FilesIgnoreHyperparameters

\* C7 (amended): with hyperparameters.json absent or holding a JSON object the
\* load never ends the run and the files written do not depend on it; a file
\* that is not JSON, or holds a JSON number, ends the run at the load, before
\* os.mkdir and before any file is written.
C7_HyperparametersDead ==
    Done("hyper") =>
        /\ (~hyperFile.exists \/ HyperFileIsObject) => ~(pc = "fatal" /\ LastStep = "hyper")
        /\ (hyperFile.exists /\ ~HyperFileIsObject) =>
               /\ pc = "fatal" /\ LastStep = "hyper"
               /\ error \in {"JSONDecodeError", "TypeError"}
               /\ ~dirCreated /\ NoOutputFile
        /\ FilesIgnoreHyperparameters

\* A run that loaded and coerced one hyperparameter and wrote both files.
C7_Witness ==
    /\ pc = "done"
    /\ HyperFileIsObject
    /\ "max_depth" \in DOMAIN hyperparameters
    /\ hyperparameters["max_depth"] = "6"
    /\ devFile.exists /\ prdFile.exists

\* C8: the flags are the parameters of main, so an invocation from the
\* command line starts the orchestration, and a finished one has written both
\* files.
C8_Claim ==
    entry = "cli" =>
        /\ CliDests = MainParams
        /\ pc = "fatal" => trace # <<>>
        /\ pc = "done" => (devFile.exists /\ prdFile.exists)

OrderedSteps == <<"image", "execid", "revisions", "mkdir", "dev", "prd">>

OrderedStepsDirExists == <<"image", "execid", "revisions", "dev", "prd">>

IsPrefix(p, q) == Len(p) <= Len(q) /\ \A i \in 1..Len(p) : p[i] = q[i]

IsOrderedStep(x) == x \in Range(OrderedSteps)

StepsInOrder ==
    LET steps == SelectSeq(trace, IsOrderedStep)
    IN  IsPrefix(steps, OrderedSteps) \/ IsPrefix(steps, OrderedStepsDirExists)

\* C10: the steps come in the order image, execution id, revisions, mkdir,
\* dev file, prd file; each file is written at most once, only after the
\* image URI, the job id and both revision ids are bound, the prd file only
\* after the dev file, both with the same TrainJobId and ImageRepoUri; an
\* ended run takes no further step and a written file or created directory
\* stays as it is.
C10_LinearRun ==
    /\ [](/\ StepsInOrder
          /\ devWrites <= 1 /\ prdWrites <= 1
          /\ devFile.exists <=> devWrites = 1
          /\ prdFile.exists <=> prdWrites = 1
          /\ devFile.exists =>
                /\ image_uri # Absent /\ job_id # Absent
                /\ git_commit_id # Absent /\ data_verison_id # Absent
          /\ prdFile.exists => devFile.exists
          /\ (devFile.exists /\ prdFile.exists) =>
                /\ devFile.json["Parameters"]["TrainJobId"] =
                       prdFile.json["Parameters"]["TrainJobId"]
                /\ devFile.json["Parameters"]["ImageRepoUri"] =
                       prdFile.json["Parameters"]["ImageRepoUri"])
    /\ [][/\ pc \notin {"fatal", "done"}
          /\ devFile.exists => devFile' = devFile
          /\ prdFile.exists => prdFile' = prdFile
          /\ dirCreated => dirCreated']_vars

\* A complete run that created the directory and wrote both files.
C10_Witness ==
    /\ pc = "done" /\ error = None
    /\ trace = <<"image", "execid", "revisions", "extract", "hyper", "mkdir", "dev", "prd">>
    /\ dirCreated /\ devFile.exists /\ prdFile.exists

====
